---- MODULE Spec2Model ----
(***************************************************************************)
(* Student portal (src/app.py): the import pipeline, the upload ledger,    *)
(* the rollback engine and the reads, over the SQLite tables of            *)
(* run_schema.  Every request handler is a process; every SQLite           *)
(* transaction is one atomic step, and the statements a handler runs       *)
(* outside a transaction are steps of their own.                           *)
(***************************************************************************)
EXTENDS Integers, Sequences, FiniteSets, TLC

\* ------------------------------------------------------------------ bounds

\* Upload ids the uploads table may hand out in one run (AUTOINCREMENT
\* never reuses an id, so this bounds the number of imports): with one
\* request at a time, and with concurrent requests.
MaxUploads == 3
MaxConcurrentUploads == 2

\* The remarks the staff may add.
MaxRemarks == 2

\* The rows at which the store may give up during an import.
MaxRows == 3
\* The marks the grids are drawn for run up to MaxMarks.
MaxMarks == 20
\* A header line has up to MaxColumns names.
MaxColumns == 3

\* Request handlers that may be in flight at once.
Procs == {"p1", "p2"}

\* ------------------------------------------------------------------ values

\* SQL NULL / Python None; a present value x is Val(x).
NULL == {}
Val(x) == {x}

Range(s) == {s[i] : i \in 1..Len(s)}

\* A DataFrame cell: NaN, a str, an int, or a float (in tenths).
NaN == [t |-> "nan", s |-> "", v |-> 0]
Txt(x) == [t |-> "str", s |-> x, v |-> 0]
IntCell(n) == [t |-> "int", s |-> "", v |-> n]
FloatCell(tenths) == [t |-> "float", s |-> "", v |-> tenths]

\* The numerals of the model's files.
NumRange == (0 - 3)..12
TenthsRange == (0 - 30)..120

\* Python str(int) and str(float).
IntStr(n) == ToString(n)
FloatStr(x) ==
    IF x >= 0 THEN ToString(x \div 10) \o "." \o ToString(x % 10)
    ELSE "-" \o ToString((0 - x) \div 10) \o "." \o ToString((0 - x) % 10)

\* str.strip() and str.lower() on the strings of the model's files.
Strip(s) ==
    CASE s = " " -> ""
      [] s = " Roll No " -> "Roll No"
      [] OTHER -> s
Lower(s) ==
    CASE s = "Roll No" -> "roll no"
      [] s = "Name" -> "name"
      [] s = "Sem" -> "sem"
      [] s = "Subject" -> "subject"
      [] s = "Exam" -> "exam"
      [] s = "Max" -> "max"
      [] s = "NaN" -> "nan"
      [] OTHER -> s

\* Python float(str): the value in tenths, or a ValueError.
Fail == [ok |-> FALSE, v |-> 0]
Ok(x) == [ok |-> TRUE, v |-> x]
ParseFloat(s) ==
    LET u == Strip(s) IN
    IF \E n \in NumRange : IntStr(n) = u
    THEN Ok(10 * (CHOOSE n \in NumRange : IntStr(n) = u))
    ELSE IF \E x \in TenthsRange : FloatStr(x) = u
    THEN Ok(CHOOSE x \in TenthsRange : FloatStr(x) = u)
    ELSE Fail

\* Python str(cell), float(cell) and int(float): int() truncates toward zero.
StrOf(c) ==
    CASE c.t = "str" -> c.s
      [] c.t = "int" -> IntStr(c.v)
      [] c.t = "float" -> FloatStr(c.v)
      [] OTHER -> "nan"
PyFloat(c) ==
    CASE c.t = "str" -> ParseFloat(c.s)
      [] c.t = "int" -> Ok(10 * c.v)
      [] c.t = "float" -> Ok(c.v)
      [] OTHER -> Fail
PyInt(x) == IF x >= 0 THEN x \div 10 ELSE 0 - ((0 - x) \div 10)

\* ------------------------------------------------------------ load_table

\* A stored file: its extension, its header line and its lines of text cells.
IsIntText(s) == \E n \in NumRange : IntStr(n) = s
IsNumText(s) == IsIntText(s) \/ \E x \in TenthsRange : FloatStr(x) = s

\* The dtype pandas infers for column j: int64 when every cell is an integer,
\* float64 when every non-empty cell is a number (or the column is empty),
\* object otherwise.
ColumnDtype(file, j) ==
    LET cells == {file.data[i][j] : i \in 1..Len(file.data)}
        filled == cells \ {""}
    IN  IF \A s \in filled : IsIntText(s)
        THEN IF "" \in cells \/ cells = {} THEN "float" ELSE "int"
        ELSE IF \A s \in filled : IsNumText(s) THEN "float" ELSE "object"

\* One parsed cell: an empty cell is NaN.
ParseCell(s, dtype) ==
    IF s = "" THEN NaN
    ELSE CASE dtype = "int" -> IntCell(ParseFloat(s).v \div 10)
           [] dtype = "float" -> FloatCell(ParseFloat(s).v)
           [] OTHER -> Txt(s)

load_table(file) ==
    [columns |-> file.columns,
     data |-> [i \in 1..Len(file.data) |->
                 [j \in 1..Len(file.columns) |->
                    ParseCell(file.data[i][j], ColumnDtype(file, j))]]]

\* save_upload's extension check.
AllowedExt == {".xlsx", ".csv"}

\* ----------------------------------------------------- normalize_columns

aliases ==
    << <<"roll", "roll_no">>, <<"roll no", "roll_no">>, <<"rollno", "roll_no">>,
       <<"rollnumber", "roll_no">>, <<"roll_no.", "roll_no">>,
       <<"student name", "name">>, <<"student", "name">>, <<"name of student", "name">>,
       <<"student email", "email">>, <<"mail", "email">>, <<"e-mail", "email">>,
       <<"student phone number", "phone">>, <<"phone number", "phone">>,
       <<"mobile", "phone">>, <<"student phone", "phone">>, <<"contact", "phone">>,
       <<"father name", "father_name">>, <<"father's name", "father_name">>,
       <<"guardian name", "father_name">>,
       <<"father phone number", "father_phone">>, <<"father mobile", "father_phone">>,
       <<"guardian phone", "father_phone">>,
       <<"sem", "semester">>, <<"sub", "subject">>, <<"subject name", "subject">>,
       <<"max", "max_marks">>, <<"maxmarks", "max_marks">>,
       <<"marks", "marks_obtained">>, <<"obtained", "marks_obtained">> >>

\* The first position of name c among the columns (0: absent).
ColumnIndex(columns, c) ==
    IF c \in Range(columns)
    THEN CHOOSE j \in 1..Len(columns) :
           columns[j] = c /\ \A k \in 1..(j - 1) : columns[k] # c
    ELSE 0

\* s without its j-th element.
Without(s, j) == [k \in 1..(Len(s) - 1) |-> IF k < j THEN s[k] ELSE s[k + 1]]

\* How many of the columns bear the name c.
Occurrences(columns, c) == Cardinality({j \in 1..Len(columns) : columns[j] = c})

\* df[v] = df.pop(k): column k leaves its place and is appended as v. When
\* several columns bear the name k (headers that differ only in case or
\* outer blanks), pop returns them all as a frame, and setting one column to
\* a frame of several raises ValueError.
PopAs(df, k, v) ==
    LET j == ColumnIndex(df.columns, k) IN
    IF Occurrences(df.columns, k) > 1
    THEN [df EXCEPT !.err = "ValueError"]
    ELSE [columns |-> Append(Without(df.columns, j), v),
          data |-> [i \in 1..Len(df.data) |->
                      Append(Without(df.data[i], j), df.data[i][j])],
          err |-> ""]

\* The loop over the alias table from its a-th entry on; an exception ends it.
RECURSIVE ApplyAliases(_, _)
ApplyAliases(df, a) ==
    IF a > Len(aliases) \/ df.err # "" THEN df
    ELSE LET k == aliases[a][1]
             v == aliases[a][2]
         IN  IF k \in Range(df.columns) /\ v \notin Range(df.columns)
             THEN ApplyAliases(PopAs(df, k, v), a + 1)
             ELSE ApplyAliases(df, a + 1)

\* The frame with its columns renamed, err being the exception raised ("":
\* none).
normalize_columns(df) ==
    ApplyAliases([columns |-> [j \in 1..Len(df.columns) |-> Lower(Strip(df.columns[j]))],
                  data |-> df.data, err |-> ""], 1)

\* DataFrame.fillna(""): every NaN becomes the empty string.
FillNaEmpty(df) ==
    [columns |-> df.columns,
     data |-> [i \in 1..Len(df.data) |->
                 [j \in 1..Len(df.columns) |->
                    IF df.data[i][j] = NaN THEN Txt("") ELSE df.data[i][j]]]]

\* DataFrame.fillna(0): every NaN becomes 0, an int in an object column and
\* 0.0 in a float64 one.
FillNaZero(df) ==
    [columns |-> df.columns,
     data |-> [i \in 1..Len(df.data) |->
                 [j \in 1..Len(df.columns) |->
                    IF df.data[i][j] = NaN
                    THEN IF \E h \in 1..Len(df.data) : df.data[h][j].t = "str"
                         THEN IntCell(0) ELSE FloatCell(0)
                    ELSE df.data[i][j]]]]

\* r[c] of row i.
Cell(df, i, c) == df.data[i][ColumnIndex(df.columns, c)]

\* The first required column df lacks ("" when none is missing).
MissingColumn(df, required) ==
    IF \A j \in 1..Len(required) : required[j] \in Range(df.columns) THEN ""
    ELSE required[CHOOSE j \in 1..Len(required) :
                    /\ required[j] \notin Range(df.columns)
                    /\ \A k \in 1..(j - 1) : required[k] \in Range(df.columns)]

\* ---------------------------------------------------------------- coercion

\* "str(x).strip() or None"
TextOrNone(c) == IF Strip(StrOf(c)) = "" THEN NULL ELSE Val(Strip(StrOf(c)))

\* semester and credits: int(float(sr)) inside try/except, None otherwise.
IntOrNone(c) ==
    LET sr == Strip(StrOf(c)) IN
    IF sr # "" /\ Lower(sr) # "nan"
    THEN IF ParseFloat(sr).ok THEN Val(PyInt(ParseFloat(sr).v)) ELSE NULL
    ELSE NULL

\* attended, total, max_marks, marks_obtained:
\* "int(float(x)) if str(x).strip() else 0", which raises on a bad number.
IntOrZero(c) ==
    IF Strip(StrOf(c)) # ""
    THEN IF PyFloat(c).ok THEN Ok(PyInt(PyFloat(c).v)) ELSE Fail
    ELSE Ok(0)

\* COALESCE(a, b)
COALESCE(a, b) == IF a = NULL THEN b ELSE a

\* f with key k set to v (INSERT ... ON CONFLICT DO UPDATE on the key).
Upsert(f, k, v) == [x \in DOMAIN f \cup {k} |-> IF x = k THEN v ELSE f[x]]

\* f without the keys in ks.
Drop(f, ks) == [x \in DOMAIN f \ ks |-> f[x]]

\* ------------------------------------------------------------------ state

VARIABLES
    uploads,              \* uploads: id -> [upload_type, row_count]
    seq,                  \* the last AUTOINCREMENT id of uploads
    students,             \* students: roll_no -> the other columns
    upload_students_map,  \* upload_students_map, in insertion order
    attendance,           \* attendance: <<roll_no, subject>> -> the other columns
    marks,                \* marks: <<roll_no, exam, subject>> -> the other columns
    remarks,              \* remarks, in insertion order
    pc,                   \* where each request handler stands
    loc,                  \* its local variables
    ret,                  \* what it reports to its caller
    preexisting,          \* history: per Students upload in the ledger, the
                          \* roll numbers stored just before its rows were applied
    origin                \* history, kept when origin.on: the store as the latest
                          \* import found it, and what has happened since

tables == <<students, upload_students_map, attendance, marks, remarks>>
vars == <<uploads, seq, students, upload_students_map, attendance, marks, remarks,
          pc, loc, ret, preexisting, origin>>

\* (mutant) a counter that starts at 1.
BeginCountingFromOne ==
    [students |-> students, map |-> upload_students_map,
     attendance |-> attendance, marks |-> marks, n |-> 1, err |-> "", at |-> 0]

\* The working copy of a write transaction.
Begin == [students |-> students, map |-> upload_students_map,
          attendance |-> attendance, marks |-> marks, n |-> 0, err |-> "", at |-> 0]

\* ---------------------------------------------------------------- importers

students_required ==
    <<"roll_no", "name", "email", "phone", "father_name", "father_phone", "semester">>
attendance_required == <<"roll_no", "subject", "attended", "total">>
marks_required == <<"roll_no", "exam", "subject", "max_marks", "marks_obtained">>

\* roll = str(r["roll_no"]).strip(), and the like.
Key(df, i, c) == Strip(StrOf(Cell(df, i, c)))

\* The values import_students binds for row i (lines 186-199).
StudentsBinds(df, i) ==
    [roll |-> Key(df, i, "roll_no"),
     values |-> [name |-> Val(Key(df, i, "name")),
                 email |-> TextOrNone(Cell(df, i, "email")),
                 phone |-> TextOrNone(Cell(df, i, "phone")),
                 father_name |-> TextOrNone(Cell(df, i, "father_name")),
                 father_phone |-> TextOrNone(Cell(df, i, "father_phone")),
                 semester |-> IntOrNone(Cell(df, i, "semester"))]]

\* The values import_attendance binds for row i (lines 230-241).
AttendanceBinds(df, i) ==
    [roll |-> Key(df, i, "roll_no"),
     subj |-> Key(df, i, "subject"),
     attended |-> IntOrZero(Cell(df, i, "attended")),
     total |-> IntOrZero(Cell(df, i, "total")),
     semester |-> IF "semester" \in Range(df.columns)
                  THEN IntOrNone(Cell(df, i, "semester")) ELSE NULL]

\* The values import_marks binds for row i (lines 265-283).
MarksBinds(df, i) ==
    [roll |-> Key(df, i, "roll_no"),
     exam |-> Key(df, i, "exam"),
     subj |-> Key(df, i, "subject"),
     maxm |-> IntOrZero(Cell(df, i, "max_marks")),
     got |-> IntOrZero(Cell(df, i, "marks_obtained")),
     credits |-> IF "credits" \in Range(df.columns)
                 THEN IntOrNone(Cell(df, i, "credits")) ELSE NULL,
     semester |-> IF "semester" \in Range(df.columns)
                  THEN IntOrNone(Cell(df, i, "semester")) ELSE NULL]

\* What each importer makes of a file before it touches the store: the
\* exception normalize_columns raised ("" when none), the required column it
\* misses ("" when none), and row by row what it binds.
StudentsRead(file) ==
    LET normal == normalize_columns(load_table(file))
        df == FillNaEmpty(normal)
        missing == IF normal.err # "" THEN "" ELSE MissingColumn(df, students_required)
    IN  [err |-> normal.err,
         missing |-> missing,
         rows |-> IF normal.err # "" \/ missing # "" THEN <<>>
                  ELSE [i \in 1..Len(df.data) |-> StudentsBinds(df, i)]]

AttendanceRead(file) ==
    LET normal == normalize_columns(load_table(file))
        df == FillNaZero(normal)
        missing == IF normal.err # "" THEN "" ELSE MissingColumn(df, attendance_required)
    IN  [err |-> normal.err,
         missing |-> missing,
         rows |-> IF normal.err # "" \/ missing # "" THEN <<>>
                  ELSE [i \in 1..Len(df.data) |-> AttendanceBinds(df, i)]]

MarksRead(file) ==
    LET normal == normalize_columns(load_table(file))
        df == FillNaZero(normal)
        missing == IF normal.err # "" THEN "" ELSE MissingColumn(df, marks_required)
    IN  [err |-> normal.err,
         missing |-> missing,
         rows |-> IF normal.err # "" \/ missing # "" THEN <<>>
                  ELSE [i \in 1..Len(df.data) |-> MarksBinds(df, i)]]

\* The first row import_students does not skip (0: none).
FirstApplied(rows) ==
    IF \E i \in 1..Len(rows) : rows[i].roll # ""
    THEN CHOOSE i \in 1..Len(rows) :
           /\ rows[i].roll # ""
           /\ \A h \in 1..(i - 1) : rows[h].roll = ""
    ELSE 0

\* (mutant) the conflict clause written with COALESCE, as for attendance.
StudentsConflictMerge(old, new) == [c \in DOMAIN new |-> COALESCE(new[c], old[c])]

\* ON CONFLICT(roll_no) DO UPDATE SET every column = excluded.column.
StudentsConflict(old, new) == new

\* One pass of the loop of import_students (lines 185-217) on the working copy.
\* "stale" is the answer of the SELECT that preceded the transaction: the first
\* INSERT opens the transaction, so the first row's "existed" was read before it.
\* failAt names the row at which the store gives up (0: it does not).
StudentsRow(tx, b, i, upload_id, stale, failAt) ==
    LET existed == IF tx.n = 0 THEN stale ELSE b.roll \in DOMAIN tx.students
    IN  IF b.roll = "" THEN tx
        ELSE IF failAt = i THEN [tx EXCEPT !.err = "OperationalError", !.at = i]
        ELSE IF upload_id \notin DOMAIN uploads
        THEN [tx EXCEPT !.err = "IntegrityError", !.at = i]
        ELSE [tx EXCEPT
                !.students = Upsert(tx.students, b.roll,
                    IF b.roll \in DOMAIN tx.students
                    THEN StudentsConflict(tx.students[b.roll], b.values)
                    ELSE b.values),
                !.map = Append(tx.map, [upload_id |-> upload_id, roll_no |-> b.roll,
                                        created_new |-> IF existed THEN 0 ELSE 1]),
                !.n = tx.n + 1]

\* (mutant) a conflict clause that leaves source_upload_id as it was.
AttendanceConflictKeepingSource(old, new) ==
    [new EXCEPT !.semester = COALESCE(new.semester, old.semester),
                !.source_upload_id = old.source_upload_id]

\* ON CONFLICT(roll_no,subject) DO UPDATE SET ... (lines 245-249).
AttendanceConflict(old, new) ==
    [new EXCEPT !.semester = COALESCE(new.semester, old.semester)]

\* ON CONFLICT(roll_no,exam,subject) DO UPDATE SET ... (lines 287-292).
MarksConflict(old, new) ==
    [new EXCEPT !.credits = COALESCE(new.credits, old.credits),
                !.semester = COALESCE(new.semester, old.semester)]

\* One pass of the loop of import_attendance (lines 229-252).
AttendanceRow(tx, b, i, upload_id, failAt) ==
    LET k == <<b.roll, b.subj>>
        new == [attended |-> b.attended.v, total |-> b.total.v,
                semester |-> b.semester, source_upload_id |-> Val(upload_id)]
    IN  IF b.roll = "" \/ b.subj = "" THEN tx
        ELSE IF ~b.attended.ok \/ ~b.total.ok
        THEN [tx EXCEPT !.err = "ValueError", !.at = i]
        ELSE IF failAt = i THEN [tx EXCEPT !.err = "OperationalError", !.at = i]
        ELSE IF b.roll \notin DOMAIN tx.students \/ upload_id \notin DOMAIN uploads
        THEN [tx EXCEPT !.err = "IntegrityError", !.at = i]
        ELSE [tx EXCEPT
                !.attendance = Upsert(tx.attendance, k,
                    IF k \in DOMAIN tx.attendance
                    THEN AttendanceConflict(tx.attendance[k], new) ELSE new),
                !.n = tx.n + 1]

\* One pass of the loop of import_marks (lines 264-295).
MarksRow(tx, b, i, upload_id, failAt) ==
    LET k == <<b.roll, b.exam, b.subj>>
        new == [max_marks |-> b.maxm.v, marks_obtained |-> b.got.v,
                credits |-> b.credits, semester |-> b.semester,
                source_upload_id |-> Val(upload_id)]
    IN  IF b.roll = "" \/ b.exam = "" \/ b.subj = "" THEN tx
        ELSE IF ~b.maxm.ok \/ ~b.got.ok
        THEN [tx EXCEPT !.err = "ValueError", !.at = i]
        ELSE IF failAt = i THEN [tx EXCEPT !.err = "OperationalError", !.at = i]
        ELSE IF b.roll \notin DOMAIN tx.students \/ upload_id \notin DOMAIN uploads
        THEN [tx EXCEPT !.err = "IntegrityError", !.at = i]
        ELSE [tx EXCEPT
                !.marks = Upsert(tx.marks, k,
                    IF k \in DOMAIN tx.marks
                    THEN MarksConflict(tx.marks[k], new) ELSE new),
                !.n = tx.n + 1]

\* The loops: row after row, until one raises.
RECURSIVE StudentsLoop(_, _, _, _, _, _)
StudentsLoop(tx, rows, i, upload_id, stale, failAt) ==
    IF i > Len(rows) \/ tx.err # "" THEN tx
    ELSE StudentsLoop(StudentsRow(tx, rows[i], i, upload_id, stale, failAt),
                      rows, i + 1, upload_id, stale, failAt)

RECURSIVE AttendanceLoop(_, _, _, _, _)
AttendanceLoop(tx, rows, i, upload_id, failAt) ==
    IF i > Len(rows) \/ tx.err # "" THEN tx
    ELSE AttendanceLoop(AttendanceRow(tx, rows[i], i, upload_id, failAt),
                        rows, i + 1, upload_id, failAt)

RECURSIVE MarksLoop(_, _, _, _, _)
MarksLoop(tx, rows, i, upload_id, failAt) ==
    IF i > Len(rows) \/ tx.err # "" THEN tx
    ELSE MarksLoop(MarksRow(tx, rows[i], i, upload_id, failAt),
                   rows, i + 1, upload_id, failAt)

\* (mutant) a block that keeps what it wrote before it raised.
OutcomeWithoutRollback(tx) == tx

\* "with get_db() as con": the connection commits the working copy when the
\* block ends and rolls it back when the block raises.
Outcome(tx) ==
    IF tx.err = "" THEN tx
    ELSE [tx EXCEPT !.students = students, !.map = upload_students_map,
                    !.attendance = attendance, !.marks = marks]

\* -------------------------------------------------------------------- files

Csv(columns, data) == [ext |-> ".csv", columns |-> columns, data |-> data]
NoFile == [ext |-> "", columns |-> <<>>, data |-> <<>>]

StudentsHeader ==
    <<" Roll No ", "Name", "email", "phone", "father name", "father_phone", "Sem">>
AttendanceHeader == <<"roll", "Subject", "attended", "total", "Sem">>
MarksHeader == <<"roll_no", "Exam", "sub", "Max", "marks", "credits", "sem">>

Alice == <<"R1", "Alice", "a@x", "111", "Bob", "222", "3.0">>
Emptied == <<"R1", "", "", "", "", "", "">>
Carol == <<"R2", "Carol", "", "", "", "", "abc">>
NoRoll == <<"", "Dan", "d@x", "", "", "", "4">>

StudentFiles ==
    { Csv(StudentsHeader, <<Alice>>),
      Csv(StudentsHeader, <<Emptied, Carol>>),
      Csv(StudentsHeader, <<NoRoll, Carol, Carol>>),
      Csv(<<"Name", "email", "phone", "father name", "father_phone", "Sem">>,
          <<<<"Alice", "a@x", "111", "Bob", "222", "3">>>>),
      Csv(<<" Roll No ", "roll no", "Name">>, <<<<"R1", "R1", "Alice">>>>) }

AttendanceFiles ==
    { Csv(AttendanceHeader, <<<<"R1", "Math", "5", "10", "3">>>>),
      Csv(<<"roll", "Subject", "attended", "total">>, <<<<"R1", "Math", "7", "10">>>>),
      Csv(AttendanceHeader, <<<<"R1", "Math", "8", "10", "">>>>),
      Csv(AttendanceHeader, <<<<"R1", "Math", "6", "10", "3">>,
                              <<"R1", "Math", "abc", "10", "3">>>>),
      Csv(AttendanceHeader, <<<<"R1", " ", "1", "2", "3">>,
                              <<"R1", "Math", "2.7", "10", "x">>>>),
      Csv(AttendanceHeader, <<<<"R1", "", "1", "2", "3">>>>),
      Csv(AttendanceHeader, <<<<"R1", "Math", "-1", "10", "3">>>>),
      Csv(<<"roll", "Subject", "attended">>, <<<<"R1", "Math", "5">>>>) }

MarksFiles ==
    { Csv(MarksHeader, <<<<"R1", "Mid", "Math", "10", "9", "4", "3">>>>),
      Csv(<<"roll_no", "Exam", "sub", "Max", "marks">>,
          <<<<"R1", "Mid", "Math", "10", "7">>>>),
      Csv(MarksHeader, <<<<"R1", "Mid", "Math", "10", "8", "", "">>>>),
      Csv(MarksHeader, <<<<"R1", "Mid", "Math", "10", "6", "4", "3">>,
                         <<"R2", "Mid", "Math", "10", "x", "4", "3">>>>),
      Csv(<<"roll_no", "Exam", "sub", "Max">>, <<<<"R1", "Mid", "Math", "10">>>>) }

\* The files of the concurrent runs.
PlainStudentFiles ==
    { Csv(StudentsHeader, <<Alice>>), Csv(StudentsHeader, <<Emptied, Carol>>) }
PlainAttendanceFiles ==
    { Csv(AttendanceHeader, <<<<"R1", "Math", "5", "10", "3">>>>),
      Csv(AttendanceHeader, <<<<"R1", "Math", "6", "10", "3">>,
                              <<"R1", "Math", "abc", "10", "3">>>>) }
PlainMarksFiles ==
    { Csv(MarksHeader, <<<<"R1", "Mid", "Math", "10", "9", "4", "3">>>>) }

RejectedFiles == { [ext |-> ".pdf", columns |-> <<>>, data |-> <<>>] }

\* The importers' reading of each file, which does not depend on the store.
StudentsParsed ==
    [file \in StudentFiles \cup {Csv(StudentsHeader, <<Carol>>)} |-> StudentsRead(file)]
AttendanceParsed == [file \in AttendanceFiles |-> AttendanceRead(file)]
MarksParsed == [file \in MarksFiles |-> MarksRead(file)]

\* ------------------------------------------------------------------ handlers

\* A handler's locals; "before" keeps, for the history, the tables as they
\* stood when the handler's write transaction began.
NoTables == [students |-> <<>>, attendance |-> <<>>, marks |-> <<>>]
Snapshot == [students |-> students, attendance |-> attendance, marks |-> marks]
NoUpload == [upload_type |-> "", row_count |-> 0]
Idle == [upload_type |-> "", up_id |-> 0, file |-> NoFile, existed |-> FALSE,
         n |-> 0, before |-> NoTables, up |-> NoUpload]
NoView == [students |-> 0, attendance |-> 0, marks |-> 0, uploads |-> <<>>]
NoRet == [status |-> "", err |-> "", at |-> 0, n |-> 0, rolls |-> {}, view |-> NoView]
Error(err, at, n) == [NoRet EXCEPT !.status = "error", !.err = err, !.at = at, !.n = n]

\* The history of the latest import: the store as create_upload_record found
\* it, whether the import has succeeded (and with which file), whether no
\* other upload has been written to or rolled back and no remark added since,
\* and whether the import has been rolled back.
Store == [uploads |-> uploads, students |-> students, map |-> upload_students_map,
          attendance |-> attendance, marks |-> marks]
NoOrigin == [on |-> FALSE, up_id |-> 0, upload_type |-> "", file |-> NoFile,
             ok |-> FALSE, clean |-> FALSE, rolled |-> FALSE, store |-> NoTables]
Found(up_id, upload_type) ==
    [on |-> TRUE, up_id |-> up_id, upload_type |-> upload_type, file |-> NoFile,
     ok |-> FALSE, clean |-> TRUE, rolled |-> FALSE, store |-> Store]
Since(up_id) ==
    IF origin.on /\ up_id # origin.up_id THEN [origin EXCEPT !.clean = FALSE]
    ELSE origin

Init ==
    /\ uploads = <<>>
    /\ seq = 0
    /\ students = <<>>
    /\ upload_students_map = <<>>
    /\ attendance = <<>>
    /\ marks = <<>>
    /\ remarks = <<>>
    /\ pc = [p \in Procs |-> "idle"]
    /\ loc = [p \in Procs |-> Idle]
    /\ ret = [p \in Procs |-> NoRet]
    /\ preexisting = <<>>
    /\ origin = NoOrigin

\* save_upload refuses the extension: the handler reports the error before
\* anything is stored.
save_upload_refused(p) ==
    /\ pc[p] = "idle"
    /\ \E file \in RejectedFiles : file.ext \notin AllowedExt
    /\ pc' = [pc EXCEPT ![p] = "done"]
    /\ ret' = [ret EXCEPT ![p] = Error("UnsupportedFormat", 0, 0)]
    /\ UNCHANGED <<uploads, seq, tables, loc, preexisting, origin>>

\* create_upload_record: its own transaction, committed before the file is read.
create_upload_record(p, upload_type, cap) ==
    /\ pc[p] = "idle"
    /\ seq < cap
    /\ seq' = seq + 1
    /\ uploads' = Upsert(uploads, seq + 1, [upload_type |-> upload_type, row_count |-> 0])
    /\ pc' = [pc EXCEPT ![p] = "created"]
    /\ loc' = [loc EXCEPT ![p] = [Idle EXCEPT !.upload_type = upload_type,
                                              !.up_id = seq + 1]]
    /\ origin' = IF origin.on THEN Found(seq + 1, upload_type) ELSE origin
    /\ UNCHANGED <<tables, ret, preexisting>>

\* The exception that ends an import before its transaction: the one
\* normalize_columns raised, or the required column missed.
Refusal(df) == IF df.err # "" THEN df.err ELSE "MissingColumn"

\* import_students up to its first INSERT: the required columns, the skipped
\* rows, and the first row's SELECT, which runs before the transaction opens.
import_students_select(p, file) ==
    /\ pc[p] = "created"
    /\ loc[p].upload_type = "Students"
    /\ LET df == StudentsParsed[file]
           first == FirstApplied(df.rows)
       IN  IF df.err # "" \/ df.missing # ""
           THEN /\ pc' = [pc EXCEPT ![p] = "done"]
                /\ ret' = [ret EXCEPT ![p] = Error(Refusal(df), 0, 0)]
                /\ loc' = [loc EXCEPT ![p].file = file]
           ELSE IF first = 0
           THEN /\ pc' = [pc EXCEPT ![p] = "bump"]
                /\ loc' = [loc EXCEPT ![p].file = file]
                /\ ret' = ret
           ELSE /\ pc' = [pc EXCEPT ![p] = "txn"]
                /\ loc' = [loc EXCEPT ![p].file = file,
                             ![p].existed = df.rows[first].roll \in DOMAIN students]
                /\ ret' = ret
    /\ UNCHANGED <<uploads, seq, tables, preexisting, origin>>

\* import_students from its first INSERT to the end of the with block.
import_students_commit(p, failAt) ==
    /\ pc[p] = "txn"
    /\ LET df == StudentsParsed[loc[p].file]
           tx == Outcome(StudentsLoop(Begin, df.rows, 1, loc[p].up_id,
                                      loc[p].existed, failAt))
       IN  /\ students' = tx.students
           /\ upload_students_map' = tx.map
           /\ IF tx.err = ""
              THEN /\ pc' = [pc EXCEPT ![p] = "bump"]
                   /\ loc' = [loc EXCEPT ![p].n = tx.n, ![p].before = Snapshot]
                   /\ ret' = ret
                   /\ preexisting' = Upsert(preexisting, loc[p].up_id, DOMAIN students)
              ELSE /\ pc' = [pc EXCEPT ![p] = "done"]
                   /\ ret' = [ret EXCEPT ![p] = Error(tx.err, tx.at, tx.n)]
                   /\ loc' = [loc EXCEPT ![p].before = Snapshot]
                   /\ preexisting' = preexisting
    /\ origin' = Since(loc[p].up_id)
    /\ UNCHANGED <<uploads, seq, attendance, marks, remarks>>

\* import_attendance up to bump_rowcount.
import_attendance(p, file, failAt) ==
    /\ pc[p] = "created"
    /\ loc[p].upload_type = "Attendance"
    /\ LET df == AttendanceParsed[file]
           tx == Outcome(AttendanceLoop(Begin, df.rows, 1, loc[p].up_id, failAt))
       IN  IF df.err # "" \/ df.missing # ""
           THEN /\ pc' = [pc EXCEPT ![p] = "done"]
                /\ ret' = [ret EXCEPT ![p] = Error(Refusal(df), 0, 0)]
                /\ loc' = [loc EXCEPT ![p].file = file]
                /\ attendance' = attendance
           ELSE /\ attendance' = tx.attendance
                /\ IF tx.err = ""
                   THEN /\ pc' = [pc EXCEPT ![p] = "bump"]
                        /\ loc' = [loc EXCEPT ![p].file = file, ![p].n = tx.n,
                                                ![p].before = Snapshot]
                        /\ ret' = ret
                   ELSE /\ pc' = [pc EXCEPT ![p] = "done"]
                        /\ ret' = [ret EXCEPT ![p] = Error(tx.err, tx.at, tx.n)]
                        /\ loc' = [loc EXCEPT ![p].file = file, ![p].before = Snapshot]
    /\ origin' = Since(loc[p].up_id)
    /\ UNCHANGED <<uploads, seq, students, upload_students_map, marks, remarks,
                   preexisting>>

\* import_marks up to bump_rowcount.
import_marks(p, file, failAt) ==
    /\ pc[p] = "created"
    /\ loc[p].upload_type = "Marks"
    /\ LET df == MarksParsed[file]
           tx == Outcome(MarksLoop(Begin, df.rows, 1, loc[p].up_id, failAt))
       IN  IF df.err # "" \/ df.missing # ""
           THEN /\ pc' = [pc EXCEPT ![p] = "done"]
                /\ ret' = [ret EXCEPT ![p] = Error(Refusal(df), 0, 0)]
                /\ loc' = [loc EXCEPT ![p].file = file]
                /\ marks' = marks
           ELSE /\ marks' = tx.marks
                /\ IF tx.err = ""
                   THEN /\ pc' = [pc EXCEPT ![p] = "bump"]
                        /\ loc' = [loc EXCEPT ![p].file = file, ![p].n = tx.n,
                                                ![p].before = Snapshot]
                        /\ ret' = ret
                   ELSE /\ pc' = [pc EXCEPT ![p] = "done"]
                        /\ ret' = [ret EXCEPT ![p] = Error(tx.err, tx.at, tx.n)]
                        /\ loc' = [loc EXCEPT ![p].file = file, ![p].before = Snapshot]
    /\ origin' = Since(loc[p].up_id)
    /\ UNCHANGED <<uploads, seq, students, upload_students_map, attendance, remarks,
                   preexisting>>

\* bump_rowcount: a third transaction; the UPDATE of a deleted id changes nothing.
bump_rowcount(p, fails) ==
    /\ pc[p] = "bump"
    /\ pc' = [pc EXCEPT ![p] = "done"]
    /\ IF fails
       THEN /\ ret' = [ret EXCEPT ![p] = Error("OperationalError", 0, loc[p].n)]
            /\ uploads' = uploads
       ELSE /\ ret' = [ret EXCEPT ![p] = [NoRet EXCEPT !.status = "ok", !.n = loc[p].n]]
            /\ uploads' = [u \in DOMAIN uploads |->
                             IF u = loc[p].up_id
                             THEN [uploads[u] EXCEPT !.row_count = @ + loc[p].n]
                             ELSE uploads[u]]
    /\ origin' = IF origin.on /\ loc[p].up_id = origin.up_id /\ ~fails
                 THEN [origin EXCEPT !.ok = TRUE, !.file = loc[p].file]
                 ELSE Since(loc[p].up_id)
    /\ UNCHANGED <<seq, tables, loc, preexisting>>

\* (mutant) the lookup's result is not tested.
KnownAlways(upload_id) == TRUE

\* "SELECT * FROM uploads WHERE id=?" finds a row.
Known(upload_id) == upload_id \in DOMAIN uploads

\* delete_upload, lines 302-304: the SELECT that looks the upload up.
delete_upload_select(p, upload_id) ==
    /\ pc[p] = "idle"
    /\ IF Known(upload_id)
       THEN /\ pc' = [pc EXCEPT ![p] = "deleting"]
            /\ loc' = [loc EXCEPT ![p] = [Idle EXCEPT !.up_id = upload_id,
                                                      !.up = IF upload_id \in DOMAIN uploads
                                                             THEN uploads[upload_id]
                                                             ELSE NoUpload]]
            /\ ret' = ret
       ELSE /\ pc' = [pc EXCEPT ![p] = "done"]
            /\ loc' = [loc EXCEPT ![p] = [Idle EXCEPT !.up_id = upload_id]]
            /\ ret' = [ret EXCEPT ![p] = [NoRet EXCEPT !.status = "false"]]
    /\ UNCHANGED <<uploads, seq, tables, preexisting, origin>>

\* (mutant) without lines 307-313: no student is deleted.
CreatedNever(upload_id) == {}

\* The roll numbers upload_id is recorded to have created (lines 307-309).
Created(upload_id) ==
    {upload_students_map[i].roll_no : i \in
        {j \in 1..Len(upload_students_map) :
            /\ upload_students_map[j].upload_id = upload_id
            /\ upload_students_map[j].created_new = 1}}

\* (mutant) without lines 305-306: only the schema's SET NULL and CASCADE act.
AfterDeleteSetNull(t, upload_id) ==
    [k \in {h \in DOMAIN t : h[1] \notin Created(upload_id)} |->
        IF t[k].source_upload_id = Val(upload_id)
        THEN [t[k] EXCEPT !.source_upload_id = NULL]
        ELSE t[k]]

\* (mutant) roll_no without its ON DELETE CASCADE: the rows of a deleted
\* student stay.
AfterDeleteWithoutCascade(t, upload_id) ==
    [k \in {h \in DOMAIN t : t[h].source_upload_id # Val(upload_id)} |-> t[k]]

\* The rows of t (attendance or marks) delete_upload leaves: not those written
\* by upload_id (lines 305-306), not those of a deleted student (ON DELETE
\* CASCADE); a source reference to the deleted upload is SET NULL.
AfterDelete(t, upload_id) ==
    LET kept == {k \in DOMAIN t : /\ t[k].source_upload_id # Val(upload_id)
                                  /\ k[1] \notin Created(upload_id)}
    IN  [k \in kept |-> t[k]]

\* delete_upload, lines 305-317: one transaction.
delete_upload(p) ==
    /\ pc[p] = "deleting"
    /\ LET id == loc[p].up_id IN
       /\ attendance' = AfterDelete(attendance, id)
       /\ marks' = AfterDelete(marks, id)
       /\ students' = Drop(students, Created(id))
       /\ remarks' = SelectSeq(remarks, LAMBDA e : e.roll_no \notin Created(id))
       /\ upload_students_map' =
            SelectSeq(upload_students_map, LAMBDA e : e.upload_id # id)
       /\ uploads' = Drop(uploads, {id})
       /\ preexisting' = Drop(preexisting, {id})
       /\ ret' = [ret EXCEPT ![p] = [NoRet EXCEPT !.status = "true",
              !.rolls = Created(id) \cap DOMAIN students,
              !.n = Cardinality(DOMAIN attendance \ DOMAIN AfterDelete(attendance, id))
                    + Cardinality(DOMAIN marks \ DOMAIN AfterDelete(marks, id))]]
    /\ pc' = [pc EXCEPT ![p] = "done"]
    /\ loc' = [loc EXCEPT ![p].before = Snapshot]
    /\ seq' = seq
    /\ origin' = IF origin.on /\ loc[p].up_id = origin.up_id
                 THEN [origin EXCEPT !.rolled = TRUE]
                 ELSE Since(loc[p].up_id)

\* admin_imports: the table counts and the ledger, taken as one snapshot.
admin_imports(p) ==
    /\ pc[p] = "idle"
    /\ pc' = [pc EXCEPT ![p] = "done"]
    /\ ret' = [ret EXCEPT ![p] = [NoRet EXCEPT !.status = "view",
            !.view = [students |-> Cardinality(DOMAIN students),
                      attendance |-> Cardinality(DOMAIN attendance),
                      marks |-> Cardinality(DOMAIN marks),
                      uploads |-> uploads]]]
    /\ UNCHANGED <<uploads, seq, tables, loc, preexisting, origin>>

\* add_remark: an empty text is refused; the INSERT fails the foreign key when
\* the roll number is no student's, and nothing catches it.
add_remark(p, roll_no, text) ==
    /\ pc[p] = "idle"
    /\ pc' = [pc EXCEPT ![p] = "done"]
    /\ IF Strip(text) = ""
       THEN /\ ret' = [ret EXCEPT ![p] = Error("EmptyRemark", 0, 0)]
            /\ remarks' = remarks
       ELSE IF roll_no \notin DOMAIN students
       THEN /\ ret' = [ret EXCEPT ![p] = Error("IntegrityError", 0, 0)]
            /\ remarks' = remarks
       ELSE /\ Len(remarks) < MaxRemarks
            /\ ret' = [ret EXCEPT ![p] = [NoRet EXCEPT !.status = "ok"]]
            /\ remarks' = Append(remarks, [roll_no |-> roll_no, remark_text |-> Strip(text)])
    /\ origin' = Since(0)
    /\ UNCHANGED <<uploads, seq, students, upload_students_map, attendance, marks,
                   loc, preexisting>>

\* The handler answers (the redirect) and the worker is free again.
Return(p) ==
    /\ pc[p] = "done"
    /\ pc' = [pc EXCEPT ![p] = "idle"]
    /\ loc' = [loc EXCEPT ![p] = Idle]
    /\ ret' = [ret EXCEPT ![p] = NoRet]
    /\ UNCHANGED <<uploads, seq, tables, preexisting, origin>>

\* One step of one of the handlers P, the uploaded files being drawn from
\* SF, AF and MF and the upload ids from 1..cap.
Step(P, SF, AF, MF, cap) ==
    \E p \in P :
        \/ save_upload_refused(p)
        \/ \E t \in {"Students", "Attendance", "Marks"} : create_upload_record(p, t, cap)
        \/ \E file \in SF : import_students_select(p, file)
        \/ \E failAt \in 0..MaxRows : import_students_commit(p, failAt)
        \/ \E file \in AF, failAt \in 0..MaxRows : import_attendance(p, file, failAt)
        \/ \E file \in MF, failAt \in 0..MaxRows : import_marks(p, file, failAt)
        \/ \E fails \in BOOLEAN : bump_rowcount(p, fails)
        \/ \E upload_id \in 1..(seq + 1) : delete_upload_select(p, upload_id)
        \/ delete_upload(p)
        \/ admin_imports(p)
        \/ Return(p)

\* The handlers served concurrently, on the plain files.
Next == Step(Procs, PlainStudentFiles, PlainAttendanceFiles, PlainMarksFiles,
             MaxConcurrentUploads)
Spec == Init /\ [][Next]_vars

\* One request at a time, on every file.
SerialNext == Step({"p1"}, StudentFiles, AttendanceFiles, MarksFiles, MaxUploads)
SerialSpec == Init /\ [][SerialNext]_vars

\* One request at a time, with the history of the latest import, on the plain
\* files, a students file of another student and an attendance file of
\* another subject.
RoundTripInit ==
    /\ uploads = <<>>
    /\ seq = 0
    /\ students = <<>>
    /\ upload_students_map = <<>>
    /\ attendance = <<>>
    /\ marks = <<>>
    /\ remarks = <<>>
    /\ pc = [p \in Procs |-> "idle"]
    /\ loc = [p \in Procs |-> Idle]
    /\ ret = [p \in Procs |-> NoRet]
    /\ preexisting = <<>>
    /\ origin = [NoOrigin EXCEPT !.on = TRUE]
RoundTripAttendanceFiles ==
    PlainAttendanceFiles \cup {Csv(AttendanceHeader, <<<<"R1", "", "1", "2", "3">>>>)}
RoundTripStudentFiles == PlainStudentFiles \cup {Csv(StudentsHeader, <<Carol>>)}
RoundTripNext == Step({"p1"}, RoundTripStudentFiles, RoundTripAttendanceFiles,
                      PlainMarksFiles, MaxUploads)
RoundTripSpec == RoundTripInit /\ [][RoundTripNext]_vars

\* One request at a time, on the plain files, remarks being added in between.
RemarkNext ==
    \/ Step({"p1"}, PlainStudentFiles, PlainAttendanceFiles, PlainMarksFiles, MaxUploads)
    \/ \E roll_no \in {"R1", "R2"}, text \in {" ", "ok"} : add_remark("p1", roll_no, text)
RemarkSpec == Init /\ [][RemarkNext]_vars

\* normalize_columns alone: a file of one line under any header line of up to
\* MaxColumns of the names below has been loaded (read_csv makes the names of
\* a header line differ, by a suffix, when they are the same text), its cells
\* telling the place they had in the file.
HeaderNames ==
    {" Roll No ", "roll no", "rollno", "roll_no", "Name", "name", "student", "note"}
HeaderLines ==
    UNION {{h \in [1..n -> HeaderNames] :
              \A i, j \in 1..n : i # j => h[i] # h[j]} : n \in 1..MaxColumns}
HeaderFiles ==
    {Csv(h, <<[j \in 1..Len(h) |-> "c" \o ToString(j)]>>) : h \in HeaderLines}
Loaded ==
    /\ uploads = <<>>
    /\ seq = 0
    /\ students = <<>>
    /\ upload_students_map = <<>>
    /\ attendance = <<>>
    /\ marks = <<>>
    /\ remarks = <<>>
    /\ pc = [p \in Procs |-> IF p = "p1" THEN "loaded" ELSE "idle"]
    /\ \E file \in HeaderFiles :
          loc = [p \in Procs |-> IF p = "p1" THEN [Idle EXCEPT !.file = file] ELSE Idle]
    /\ ret = [p \in Procs |-> NoRet]
    /\ preexisting = <<>>
    /\ origin = NoOrigin

\* The call of normalize_columns in a handler's try block: the frame it
\* returns, or the exception the except clause reports.
normalize(p) ==
    /\ pc[p] = "loaded"
    /\ pc' = [pc EXCEPT ![p] = "done"]
    /\ LET df == normalize_columns(load_table(loc[p].file)) IN
       ret' = [ret EXCEPT ![p] =
                 IF df.err # "" THEN [Error(df.err, 0, 0) EXCEPT !.view = df]
                 ELSE [NoRet EXCEPT !.status = "ok", !.view = df]]
    /\ UNCHANGED <<uploads, seq, tables, loc, preexisting, origin>>

\* Return here leaves the locals, for the history.
NormalizeNext ==
    \/ normalize("p1")
    \/ /\ pc["p1"] = "done"
       /\ pc' = [pc EXCEPT !["p1"] = "idle"]
       /\ UNCHANGED <<uploads, seq, tables, loc, ret, preexisting, origin>>
NormalizeSpec == Loaded /\ [][NormalizeNext]_vars

\* -------------------------------------------------------------- the grids

\* A percentage, 100.0 * marks_obtained / max_marks, kept as a fraction with a
\* positive denominator: the quotient of two integers of this size compares
\* with an integer as the fraction does.
Percent(got, maxm) ==
    IF maxm > 0 THEN [num |-> 100 * got, den |-> maxm]
    ELSE [num |-> 0 - 100 * got, den |-> 0 - maxm]
Zero == [num |-> 0, den |-> 1]
\* (mutant) ">" for ">=".
Above(pct, n) == pct.num > n * pct.den

\* pct >= n
AtLeast(pct, n) == pct.num >= n * pct.den

letter_grade(pct) ==
    IF AtLeast(pct, 85) THEN "A+"
    ELSE IF AtLeast(pct, 75) THEN "A"
    ELSE IF AtLeast(pct, 65) THEN "B+"
    ELSE IF AtLeast(pct, 55) THEN "B"
    ELSE IF AtLeast(pct, 45) THEN "C"
    ELSE IF AtLeast(pct, 35) THEN "D"
    ELSE "F"

\* The texts of the grids in the order of their code points, which is the
\* order of sorted() and of ORDER BY on a TEXT column.
Collation == <<"Art", "Exam", "Final", "Math", "Mid">>
Place(text) == CHOOSE j \in 1..Len(Collation) : Collation[j] = text
Ascending(S, rank) ==
    [j \in 1..Cardinality(S) |->
        CHOOSE x \in S : Cardinality({y \in S : rank[y] < rank[x]}) = j - 1]

\* "SELECT exam, subject, max_marks, marks_obtained FROM marks WHERE roll_no=?
\* ORDER BY exam, subject".
MarksOf(roll) ==
    LET keys == {k \in DOMAIN marks : k[1] = roll}
        sorted == Ascending(keys, [k \in keys |->
                                     Place(k[2]) * (Len(Collation) + 1) + Place(k[3])])
    IN  [j \in 1..Len(sorted) |->
            [exam |-> sorted[j][2], subject |-> sorted[j][3],
             max_marks |-> marks[sorted[j]].max_marks,
             marks_obtained |-> marks[sorted[j]].marks_obtained]]

\* The exams of the rows, each at its first appearance (lines 337-340).
RECURSIVE FirstAppearances(_, _, _)
FirstAppearances(rows, j, exams) ==
    IF j > Len(rows) THEN exams
    ELSE FirstAppearances(rows, j + 1,
            IF rows[j].exam \in Range(exams) THEN exams ELSE Append(exams, rows[j].exam))

\* The text of a cell (lines 347-349).
MarkCell(r) ==
    LET pct == IF r.max_marks # 0 THEN Percent(r.marks_obtained, r.max_marks) ELSE Zero
    IN  letter_grade(pct) \o " (" \o ToString(r.marks_obtained) \o "/"
            \o ToString(r.max_marks) \o ")"
\* The marker of a missing cell (line 351), written here in ASCII.
Placeholder == "--"

\* The dict of one exam (lines 343-351): "Exam" is set first, then one key per
\* subject, a later assignment to a key replacing an earlier one.
RECURSIVE GridRow(_, _, _, _, _)
GridRow(rows, ex, subjects, j, row) ==
    IF j > Len(subjects) THEN row
    ELSE LET sub == subjects[j]
             match == SelectSeq(rows, LAMBDA r : r.exam = ex /\ r.subject = sub)
         IN  GridRow(rows, ex, subjects, j + 1,
                     Upsert(row, sub, IF match # <<>> THEN MarkCell(match[1])
                                      ELSE Placeholder))

build_marks_grid(roll) ==
    LET rows == MarksOf(roll)
        named == {rows[j].subject : j \in 1..Len(rows)}
        subjects == Ascending(named, [sub \in named |-> Place(sub)])
        exams == FirstAppearances(rows, 1, <<>>)
    IN  IF rows = <<>> THEN [headers |-> <<>>, rows |-> <<>>]
        ELSE [headers |-> <<"Exam">> \o subjects,
              rows |-> [j \in 1..Len(exams) |->
                          GridRow(rows, exams[j], subjects, 1, [h \in {"Exam"} |-> exams[j]])]]

\* student_view: the student is looked up, then the grid is built.
student_view(p, roll_no) ==
    /\ pc[p] = "idle"
    /\ pc' = [pc EXCEPT ![p] = "done"]
    /\ ret' = [ret EXCEPT ![p] =
          IF roll_no \notin DOMAIN students
          THEN [NoRet EXCEPT !.status = "not found"]
          ELSE [NoRet EXCEPT !.status = "student", !.rolls = {roll_no},
                             !.view = build_marks_grid(roll_no)]]
    /\ UNCHANGED <<uploads, seq, tables, loc, preexisting, origin>>

\* The stores the grids are drawn for: a Students upload of the roll numbers
\* and then a Marks upload of any choice of the cells, each with marks among
\* gots and maxs.
Student(name) ==
    [name |-> Val(name), email |-> NULL, phone |-> NULL, father_name |-> NULL,
     father_phone |-> NULL, semester |-> NULL]
GridStores(cells, gots, maxs) ==
    UNION {[written -> [max_marks : maxs, marks_obtained : gots, credits : {NULL},
                        semester : {NULL}, source_upload_id : {Val(2)}]] :
           written \in SUBSET cells}
GridInit(rolls, cells, gots, maxs) ==
    /\ students = [r \in Range(rolls) |-> Student(r)]
    /\ marks \in GridStores(cells, gots, maxs)
    /\ uploads = <<[upload_type |-> "Students", row_count |-> Len(rolls)],
                   [upload_type |-> "Marks", row_count |-> Cardinality(DOMAIN marks)]>>
    /\ seq = 2
    /\ upload_students_map =
          [j \in 1..Len(rolls) |-> [upload_id |-> 1, roll_no |-> rolls[j], created_new |-> 1]]
    /\ attendance = <<>>
    /\ remarks = <<>>
    /\ pc = [p \in Procs |-> "idle"]
    /\ loc = [p \in Procs |-> Idle]
    /\ ret = [p \in Procs |-> NoRet]
    /\ preexisting = <<{}>>
    /\ origin = NoOrigin

ViewNext == \/ \E roll_no \in {"R1", "R2", "R3"} : student_view("p1", roll_no)
            \/ Return("p1")

\* letter_grade: one student, one cell, every pair of marks.
GradeInit ==
    GridInit(<<"R1">>, {<<"R1", "Mid", "Math">>}, (0 - 1)..MaxMarks, (0 - 1)..MaxMarks)
GradeSpec == GradeInit /\ [][ViewNext]_vars

\* build_marks_grid: two students, two exams, two subjects.
GridCells ==
    {<<"R1", "Final", "Exam">>, <<"R1", "Final", "Math">>, <<"R1", "Mid", "Exam">>,
     <<"R1", "Mid", "Math">>, <<"R2", "Mid", "Art">>}
GridStoresInit == GridInit(<<"R1", "R2">>, GridCells, {MaxMarks - 2}, {0, MaxMarks})
GridSpec == GridStoresInit /\ [][ViewNext]_vars

\* ------------------------------------------------------------------ claims

\* What the text of an uploaded file says, read without the importers: the
\* place of a column under any of its spellings (0: the file has none), the
\* text of a cell, and whether a text is empty or blank.
RawColumn(file, names) ==
    IF \E j \in 1..Len(file.columns) : file.columns[j] \in names
    THEN CHOOSE j \in 1..Len(file.columns) : file.columns[j] \in names
    ELSE 0
Raw(file, i, names) ==
    IF RawColumn(file, names) = 0 THEN "" ELSE file.data[i][RawColumn(file, names)]
IsBlank(text) == text \in {"", " "}

RollNames == {" Roll No ", "roll", "roll_no"}
SubjectNames == {"Subject", "sub"}
ExamNames == {"Exam"}
SemesterNames == {"Sem", "sem"}

\* The identifying columns of each kind of upload.
IdentifyingNames(upload_type) ==
    CASE upload_type = "Students" -> {RollNames}
      [] upload_type = "Attendance" -> {RollNames, SubjectNames}
      [] OTHER -> {RollNames, ExamNames, SubjectNames}

\* The members of a set of texts or of numbers, in ascending order.
Listed(S, rank) ==
    [j \in 1..Cardinality(S) |->
        CHOOSE x \in S : Cardinality({y \in S : rank[y] < rank[x]}) = j - 1]
InCodePoints == [text \in {"Art", "Exam", "Final", "Math", "Mid"} |->
                    CASE text = "Art" -> 1 [] text = "Exam" -> 2 [] text = "Final" -> 3
                      [] text = "Math" -> 4 [] OTHER -> 5]

\* The rows of a file that carry every identifying value.
CompleteRows(file, upload_type) ==
    {i \in 1..Len(file.data) :
        \A names \in IdentifyingNames(upload_type) : ~IsBlank(Raw(file, i, names))}

\* The number a numeric text of the files stands for (NULL: it is no number).
NumberOf(text) ==
    CASE text = "3.0" -> Val(3)
      [] text = "2.7" -> Val(2)
      [] \E n \in (0 - 3)..10 : text = ToString(n) ->
            Val(CHOOSE n \in (0 - 3)..10 : text = ToString(n))
      [] OTHER -> NULL

Importing(p, upload_type) == loc[p].upload_type = upload_type

\* C1: an import that fails with MissingColumn leaves no trace in the
\* database: in particular the ledger holds no UploadRecord of it.
C1_MissingColumnWritesNothing ==
    \A p \in Procs :
        (pc[p] = "done" /\ ret[p].err = "MissingColumn")
            => loc[p].up_id \notin DOMAIN uploads

\* C2: whatever a read returns is the state before or after whole imports:
\* when it counts rows of a kind, the ledger it lists holds an upload of that
\* kind whose row count is no longer 0.
C2_ReadsSeeWholeImports ==
    \A p \in Procs :
        ret[p].status = "view" =>
            LET v == ret[p].view
                Counted(t) == \E u \in DOMAIN v.uploads :
                                 /\ v.uploads[u].upload_type = t
                                 /\ v.uploads[u].row_count > 0
            IN  /\ v.students > 0 => Counted("Students")
                /\ v.attendance > 0 => Counted("Attendance")
                /\ v.marks > 0 => Counted("Marks")

\* C3: the step at which an import fails while applying its rows leaves
\* students, upload_students_map, attendance and marks as they were: none of
\* the rows before the failing one stays applied.
C3_FailedImportAppliesNothing ==
    [][\A p \in Procs :
          (pc[p] \in {"created", "txn"} /\ pc'[p] = "done" /\ ret'[p].at >= 1)
              => UNCHANGED tables]_vars

\* C3 witness: an import has failed at its second or a later row, after rows
\* of the same file had been written in its transaction.
C3_Witness ==
    \E p \in Procs :
        pc[p] = "done" /\ ret[p].status = "error" /\ ret[p].at >= 2 /\ ret[p].n >= 1

\* The roll numbers stored when the rows of upload_id were applied: all of
\* them for an upload that applied no Students rows.
ExistedBefore(upload_id) ==
    IF upload_id \in DOMAIN preexisting
    THEN preexisting[upload_id] \cap DOMAIN students
    ELSE DOMAIN students

\* C4: the rollback of U removes every student U is recorded to have created
\* and keeps, with its values, every student that existed when U was applied.
C4_RollbackSparesExistingStudents ==
    [][\A p \in Procs :
          (pc[p] = "deleting" /\ pc'[p] = "done") =>
              /\ \A r \in Created(loc[p].up_id) : r \notin DOMAIN students'
              /\ \A r \in ExistedBefore(loc[p].up_id) :
                    r \in DOMAIN students' /\ students'[r] = students[r]]_vars

\* C5, for one table: the rollback of upload_id removes every record whose
\* provenance is upload_id, leaves none with that provenance, and leaves as
\* it was every record of another provenance whose student upload_id did not
\* create.
RollbackFrame(t, after, upload_id) ==
    /\ \A k \in DOMAIN t :
          t[k].source_upload_id = Val(upload_id) => k \notin DOMAIN after
    /\ \A k \in DOMAIN after : after[k].source_upload_id # Val(upload_id)
    /\ \A k \in DOMAIN t :
          (t[k].source_upload_id # Val(upload_id) /\ k[1] \notin Created(upload_id))
              => (k \in DOMAIN after /\ after[k] = t[k])

\* C5: the frame of a rollback on attendance and on marks.
C5_RollbackFrame ==
    [][\A p \in Procs :
          (pc[p] = "deleting" /\ pc'[p] = "done") =>
              /\ RollbackFrame(attendance, attendance', loc[p].up_id)
              /\ RollbackFrame(marks, marks', loc[p].up_id)]_vars

\* C5 witness: a rollback has removed records and kept another upload's.
C5_Witness ==
    \E p \in Procs :
        /\ pc[p] = "done" /\ ret[p].status = "true" /\ ret[p].n >= 1
        /\ (DOMAIN attendance # {} \/ DOMAIN marks # {})

\* C6: a rollback goes on only for an upload id of the ledger; for any other
\* id it answers false and changes neither the ledger nor the tables.
C6_UnknownUploadIsRefused ==
    [][\A p \in Procs :
          /\ (pc[p] = "idle" /\ pc'[p] = "deleting")
                => loc'[p].up_id \in DOMAIN uploads
          /\ (pc[p] = "idle" /\ ret'[p].status = "false")
                => (loc'[p].up_id \notin DOMAIN uploads /\ UNCHANGED <<uploads, tables>>)]_vars

\* C6 witness: a rollback of an id that was issued and is no longer in the
\* ledger (it was rolled back) has answered false.
C6_Witness ==
    \E p \in Procs :
        /\ pc[p] = "done" /\ ret[p].status = "false"
        /\ loc[p].up_id \in 1..seq /\ loc[p].up_id \notin DOMAIN uploads

\* The last row of a Students file for each roll number it applies.
LastRows(file) ==
    {i \in CompleteRows(file, "Students") :
        \A h \in CompleteRows(file, "Students") :
            Raw(file, h, RollNames) = Raw(file, i, RollNames) => h <= i}

TextOrNull(text) == IF text = "" THEN NULL ELSE Val(text)

\* What a row of a Students file says of the optional attributes.
OptionalAttributes(file, i) ==
    [email |-> TextOrNull(Raw(file, i, {"email"})),
     phone |-> TextOrNull(Raw(file, i, {"phone"})),
     father_name |-> TextOrNull(Raw(file, i, {"father name"})),
     father_phone |-> TextOrNull(Raw(file, i, {"father_phone"})),
     semester |-> NumberOf(Raw(file, i, SemesterNames))]

\* The stored student of row i has the optional attributes of the row.
OptionalReplaced(file, i) ==
    \A c \in DOMAIN OptionalAttributes(file, i) :
        students[Raw(file, i, RollNames)][c] = OptionalAttributes(file, i)[c]

Updated(p) ==
    {i \in LastRows(loc[p].file) :
        Raw(loc[p].file, i, RollNames) \in DOMAIN loc[p].before.students}

\* C7 as claimed: once a Students import has applied a row over an existing
\* student, every attribute, the name too, is the row's value, and null when
\* the row leaves it empty.
C7_EveryAttributeReplacedOrNull ==
    \A p \in Procs :
        (pc[p] = "bump" /\ Importing(p, "Students")) =>
            \A i \in Updated(p) :
                /\ OptionalReplaced(loc[p].file, i)
                /\ students[Raw(loc[p].file, i, RollNames)].name
                      = TextOrNull(Raw(loc[p].file, i, {"Name"}))

\* C7 as amended: the optional attributes are the row's values, null when the
\* row leaves them empty; the name is the row's text, the empty string when
\* the row leaves it empty.
C7_EveryAttributeReplaced ==
    \A p \in Procs :
        (pc[p] = "bump" /\ Importing(p, "Students")) =>
            \A i \in Updated(p) :
                /\ OptionalReplaced(loc[p].file, i)
                /\ students[Raw(loc[p].file, i, RollNames)].name
                      = Val(Raw(loc[p].file, i, {"Name"}))

\* C7 witness: an import has nulled an email an earlier import had set.
C7_Witness ==
    \E p \in Procs :
        /\ pc[p] = "bump" /\ Importing(p, "Students")
        /\ \E i \in Updated(p) :
              /\ loc[p].before.students[Raw(loc[p].file, i, RollNames)].email # NULL
              /\ students[Raw(loc[p].file, i, RollNames)].email = NULL

AttendanceKey(file, i) == <<Raw(file, i, RollNames), Raw(file, i, SubjectNames)>>
MarksKey(file, i) ==
    <<Raw(file, i, RollNames), Raw(file, i, ExamNames), Raw(file, i, SubjectNames)>>

\* The rows of a file whose key the file holds once and the table t held
\* before the import.
Rewritten(file, KeyOf(_, _), t) ==
    {i \in 1..Len(file.data) :
        /\ KeyOf(file, i) \in DOMAIN t
        /\ \A h \in 1..Len(file.data) : KeyOf(file, h) = KeyOf(file, i) => h = i}

\* C8: once an Attendance or Marks import has applied a row over an existing
\* record, a semester (credits) the file does not supply, its column absent
\* or the cell empty, is the one stored before, and the counts are the row's.
C8_AbsentSemesterAndCreditsKept ==
    \A p \in Procs :
        /\ (pc[p] = "bump" /\ Importing(p, "Attendance")) =>
              \A i \in Rewritten(loc[p].file, AttendanceKey, loc[p].before.attendance) :
                  LET k == AttendanceKey(loc[p].file, i) IN
                  /\ Raw(loc[p].file, i, SemesterNames) = "" =>
                        attendance[k].semester = loc[p].before.attendance[k].semester
                  /\ Val(attendance[k].attended) = NumberOf(Raw(loc[p].file, i, {"attended"}))
                  /\ Val(attendance[k].total) = NumberOf(Raw(loc[p].file, i, {"total"}))
        /\ (pc[p] = "bump" /\ Importing(p, "Marks")) =>
              \A i \in Rewritten(loc[p].file, MarksKey, loc[p].before.marks) :
                  LET k == MarksKey(loc[p].file, i) IN
                  /\ Raw(loc[p].file, i, SemesterNames) = "" =>
                        marks[k].semester = loc[p].before.marks[k].semester
                  /\ Raw(loc[p].file, i, {"credits"}) = "" =>
                        marks[k].credits = loc[p].before.marks[k].credits
                  /\ Val(marks[k].max_marks) = NumberOf(Raw(loc[p].file, i, {"Max"}))
                  /\ Val(marks[k].marks_obtained) = NumberOf(Raw(loc[p].file, i, {"marks"}))

\* C9: a row that lacks an identifying value is skipped: the rows an import
\* counts are those that carry every identifying value, and no import fails
\* at a row that lacks one.
C9_IncompleteRowsSkipped ==
    \A p \in Procs :
        /\ (pc[p] = "bump" /\ loc[p].upload_type # "") =>
              loc[p].n = Cardinality(CompleteRows(loc[p].file, loc[p].upload_type))
        /\ (pc[p] = "done" /\ ret[p].at >= 1) =>
              ret[p].at \in CompleteRows(loc[p].file, loc[p].upload_type)

\* The rows with a text that is no number in one of the given columns.
NotNumeric(file, columns) ==
    {i \in 1..Len(file.data) :
        \E names \in columns :
            Raw(file, i, names) # "" /\ NumberOf(Raw(file, i, names)) = NULL}

\* C10: a numeric cell that is no number aborts nothing: no import ends with
\* the parse error, a semester that is no number is stored as null, and an
\* attended count that is no number is stored as 0.
C10_BadNumbersNeverAbort ==
    \A p \in Procs :
        /\ pc[p] = "done" => ret[p].err # "ValueError"
        /\ (pc[p] = "bump" /\ Importing(p, "Students")) =>
              \A i \in LastRows(loc[p].file) \cap NotNumeric(loc[p].file, {SemesterNames}) :
                  students[Raw(loc[p].file, i, RollNames)].semester = NULL
        /\ (pc[p] = "bump" /\ Importing(p, "Attendance")) =>
              \A i \in NotNumeric(loc[p].file, {{"attended"}}) :
                  /\ AttendanceKey(loc[p].file, i) \in DOMAIN attendance
                  /\ attendance[AttendanceKey(loc[p].file, i)].attended = 0

\* C11: the step by which an Attendance or Marks import ends leaves the
\* students as they were, and after every step each attendance and marks
\* record has the roll number of a stored student.
C11_OnlyStudentsUploadsTouchStudents ==
    [][/\ \A p \in Procs :
             (pc[p] = "created" /\ pc'[p] # "created"
                /\ loc[p].upload_type \in {"Attendance", "Marks"})
                 => students' = students
       /\ \A k \in DOMAIN attendance' : k[1] \in DOMAIN students'
       /\ \A k \in DOMAIN marks' : k[1] \in DOMAIN students']_vars

\* C11 witness: an Attendance import has applied a row of a stored student.
C11_Witness ==
    \E p \in Procs :
        /\ pc[p] = "bump" /\ Importing(p, "Attendance") /\ loc[p].n >= 1
        /\ \E k \in DOMAIN attendance :
              k[1] \in DOMAIN students /\ attendance[k].source_upload_id = Val(loc[p].up_id)

\* The rows of a file its importer does not skip.
NotSkipped(file, upload_type) ==
    CASE upload_type = "Students" ->
            {i \in 1..Len(file.data) : StudentsParsed[file].rows[i].roll # ""}
      [] upload_type = "Attendance" ->
            {i \in 1..Len(file.data) :
                LET b == AttendanceParsed[file].rows[i] IN b.roll # "" /\ b.subj # ""}
      [] OTHER ->
            {i \in 1..Len(file.data) :
                LET b == MarksParsed[file].rows[i] IN
                b.roll # "" /\ b.exam # "" /\ b.subj # ""}

\* C13: the row count of an UploadRecord is 0 when the record is created and,
\* once its import has succeeded, the number of rows of the file that were
\* not skipped, a repeated key counted at each of its rows.
C13_RowCountIsRowsApplied ==
    \A p \in Procs :
        loc[p].up_id \in DOMAIN uploads =>
            /\ pc[p] = "created" => uploads[loc[p].up_id].row_count = 0
            /\ (pc[p] = "done" /\ ret[p].status = "ok") =>
                  uploads[loc[p].up_id].row_count
                      = Cardinality(NotSkipped(loc[p].file, loc[p].upload_type))

\* C13 witness: an import of a three-row file, one row skipped and two of one
\* roll number, has succeeded with a row count of 2.
C13_Witness ==
    \E p \in Procs :
        /\ pc[p] = "done" /\ ret[p].status = "ok" /\ Importing(p, "Students")
        /\ Len(loc[p].file.data) = 3
        /\ loc[p].up_id \in DOMAIN uploads
        /\ uploads[loc[p].up_id].row_count = 2
        /\ Cardinality(DOMAIN students \ DOMAIN loc[p].before.students) = 1

\* The bands of the grades, by their lower bounds; F is below the last.
Bands == <<[grade |-> "A+", from |-> 85], [grade |-> "A", from |-> 75],
           [grade |-> "B+", from |-> 65], [grade |-> "B", from |-> 55],
           [grade |-> "C", from |-> 45], [grade |-> "D", from |-> 35]>>

\* 100 * got / maxm >= n, the percentage being 0 when maxm is 0.
PercentageAtLeast(got, maxm, n) ==
    IF maxm = 0 THEN 0 >= n
    ELSE IF maxm > 0 THEN 100 * got >= n * maxm
    ELSE 100 * got <= n * maxm

\* The grades whose band holds the percentage of got out of maxm.
GradesOf(got, maxm) ==
    {Bands[j].grade : j \in {h \in 1..Len(Bands) :
        /\ PercentageAtLeast(got, maxm, Bands[h].from)
        /\ h > 1 => ~PercentageAtLeast(got, maxm, Bands[h - 1].from)}}
    \cup (IF PercentageAtLeast(got, maxm, Bands[Len(Bands)].from) THEN {} ELSE {"F"})

\* "<grade> (<obtained>/<max>)"
CellText(grade, got, maxm) ==
    grade \o " (" \o ToString(got) \o "/" \o ToString(maxm) \o ")"

\* C14: the percentage of a mark, 0 when max_marks is 0, lies in exactly one
\* band, and the grade of its cell in the grid is that band's.
C14_GradeIsTheBandOfThePercentage ==
    \A p \in Procs :
        ret[p].status = "student" =>
            \A k \in {h \in DOMAIN marks : h[1] \in ret[p].rolls} :
                LET got == marks[k].marks_obtained
                    maxm == marks[k].max_marks
                IN  /\ Cardinality(GradesOf(got, maxm)) = 1
                    /\ \E j \in 1..Len(ret[p].view.rows) :
                          \E grade \in GradesOf(got, maxm) :
                              ret[p].view.rows[j][k[3]] = CellText(grade, got, maxm)

\* C14 witness: 17 marks out of 20, which is 85 per cent, are shown as A+.
C14_Witness ==
    \E p \in Procs :
        /\ ret[p].status = "student"
        /\ <<"R1", "Mid", "Math">> \in DOMAIN marks
        /\ marks[<<"R1", "Mid", "Math">>].marks_obtained = 17
        /\ marks[<<"R1", "Mid", "Math">>].max_marks = 20
        /\ ret[p].view.rows[1]["Math"] = "A+ (17/20)"

\* The grid the claim describes for the marks of a student.
GridAsClaimed(grid, roll) ==
    LET keys == {k \in DOMAIN marks : k[1] = roll}
        subjects == {k[3] : k \in keys}
        exams == Listed({k[2] : k \in keys}, InCodePoints)
    IN  /\ keys = {} <=> (grid.headers = <<>> /\ grid.rows = <<>>)
        /\ keys # {} =>
              /\ Len(grid.headers) = 1 + Cardinality(subjects)
              /\ grid.headers[1] = "Exam"
              /\ {grid.headers[j] : j \in 2..Len(grid.headers)} = subjects
              /\ \A i, j \in 2..Len(grid.headers) :
                    i < j => InCodePoints[grid.headers[i]] < InCodePoints[grid.headers[j]]
              /\ Len(grid.rows) = Len(exams)
              /\ \A j \in 1..Len(exams) :
                    /\ grid.rows[j]["Exam"] = exams[j]
                    /\ \A sub \in subjects :
                          LET k == <<roll, exams[j], sub>> IN
                          grid.rows[j][sub] =
                              IF k \in DOMAIN marks
                              THEN CellText(CHOOSE g \in GradesOf(marks[k].marks_obtained,
                                                                marks[k].max_marks) : TRUE,
                                            marks[k].marks_obtained, marks[k].max_marks)
                              ELSE Placeholder

\* C15: the grid of a student is empty exactly when the student has no marks;
\* otherwise its headers are "Exam" and the subjects in ascending order, its
\* rows are the exams in ascending order, and each cell is the text of its
\* mark or the placeholder.
C15_GridIsThePivotOfTheMarks ==
    \A p \in Procs :
        ret[p].status = "student" =>
            \A roll \in ret[p].rolls : GridAsClaimed(ret[p].view, roll)

\* What the store holds that upload_id wrote: the roll numbers of its
\* ProvenanceEntries and the keys of the records it is the provenance of.
WrittenBy(upload_id) ==
    [rolls |-> {upload_students_map[j].roll_no :
                   j \in {h \in 1..Len(upload_students_map) :
                            upload_students_map[h].upload_id = upload_id}},
     attendance |-> {k \in DOMAIN attendance :
                        attendance[k].source_upload_id = Val(upload_id)},
     marks |-> {k \in DOMAIN marks : marks[k].source_upload_id = Val(upload_id)}]

\* C16: when an import reports an error to its caller, the store holds
\* nothing that the import wrote.
C16_ErrorMeansNothingApplied ==
    \A p \in Procs :
        (pc[p] = "done" /\ ret[p].status = "error" /\ loc[p].upload_type # "") =>
            WrittenBy(loc[p].up_id) = [rolls |-> {}, attendance |-> {}, marks |-> {}]

\* The ProvenanceEntries the claim has a Students import of the file of p
\* record: one per row that carries a roll number, in the order of the rows,
\* created_new being 1 when neither the store nor an earlier row of the file
\* holds the roll number.
EntriesAsClaimed(p) ==
    LET file == loc[p].file
        applied == CompleteRows(file, "Students")
        rows == Listed(applied, [i \in applied |-> i])
        Entry(i) ==
            [upload_id |-> loc[p].up_id,
             roll_no |-> Raw(file, i, RollNames),
             created_new |->
                IF \/ Raw(file, i, RollNames) \in DOMAIN students
                   \/ \E h \in applied :
                         h < i /\ Raw(file, h, RollNames) = Raw(file, i, RollNames)
                THEN 0 ELSE 1]
    IN  [j \in 1..Len(rows) |-> Entry(rows[j])]

\* C17: the step that applies the rows of a Students import appends the
\* ProvenanceEntries of its rows, created_new telling whether the student
\* existed just before the row; the step of an Attendance or Marks import
\* appends none.
C17_ProvenanceTellsWhoCreated ==
    [][\A p \in Procs :
          /\ (pc[p] = "txn" /\ pc'[p] = "bump")
                => upload_students_map' = upload_students_map \o EntriesAsClaimed(p)
          /\ (pc[p] = "created" /\ pc'[p] # "created")
                => upload_students_map' = upload_students_map]_vars

\* The keys an import of the file writes: those of the rows it does not skip.
KeysWritten(file, upload_type) ==
    IF upload_type = "Attendance"
    THEN {<<AttendanceParsed[file].rows[i].roll, AttendanceParsed[file].rows[i].subj>> :
             i \in NotSkipped(file, upload_type)}
    ELSE {<<MarksParsed[file].rows[i].roll, MarksParsed[file].rows[i].exam,
            MarksParsed[file].rows[i].subj>> : i \in NotSkipped(file, upload_type)}

\* After an import of upload_id that wrote the keys, a record of one of the
\* keys has the provenance upload_id and every other record has the
\* provenance it had.
LastWriter(t, after, keys, upload_id) ==
    \A k \in DOMAIN after :
        IF k \in keys THEN after[k].source_upload_id = Val(upload_id)
        ELSE k \in DOMAIN t /\ after[k].source_upload_id = t[k].source_upload_id

\* C18: the step that applies an Attendance or Marks import makes the import
\* the provenance of the records whose keys it writes and of no other; and
\* the rollback of an upload that is the provenance of no record and created
\* no student deletes no record.
C18_ProvenanceIsTheLastWriter ==
    [][\A p \in Procs :
          /\ (pc[p] = "created" /\ pc'[p] = "bump" /\ Importing(p, "Attendance"))
                => LastWriter(attendance, attendance',
                              KeysWritten(loc'[p].file, "Attendance"), loc[p].up_id)
          /\ (pc[p] = "created" /\ pc'[p] = "bump" /\ Importing(p, "Marks"))
                => LastWriter(marks, marks',
                              KeysWritten(loc'[p].file, "Marks"), loc[p].up_id)
          /\ (pc[p] = "deleting" /\ pc'[p] = "done"
                /\ WrittenBy(loc[p].up_id).attendance = {}
                /\ WrittenBy(loc[p].up_id).marks = {}
                /\ Created(loc[p].up_id) = {})
                => (attendance' = attendance /\ marks' = marks)]_vars

\* C18 witness: an Attendance upload that had applied a row, all of its
\* records since overwritten by a later upload, has been rolled back and the
\* records are there.
C18_Witness ==
    \E p \in Procs :
        /\ pc[p] = "done" /\ ret[p].status = "true" /\ ret[p].n = 0
        /\ loc[p].up.upload_type = "Attendance" /\ loc[p].up.row_count >= 1
        /\ \E k \in DOMAIN attendance :
              \E u \in DOMAIN uploads :
                 u > loc[p].up_id /\ attendance[k].source_upload_id = Val(u)

\* C19: after the rollback that deletes a student, no attendance record, no
\* marks record, no remark and no ProvenanceEntry holds its roll number.
C19_DeletedStudentLeavesNothing ==
    [][\A p \in Procs :
          (pc[p] = "deleting" /\ pc'[p] = "done") =>
              \A r \in DOMAIN students \ DOMAIN students' :
                  /\ \A k \in DOMAIN attendance' : k[1] # r
                  /\ \A k \in DOMAIN marks' : k[1] # r
                  /\ \A j \in 1..Len(remarks') : remarks'[j].roll_no # r
                  /\ \A j \in 1..Len(upload_students_map') :
                        upload_students_map'[j].roll_no # r]_vars

\* C20: every stored attendance record has attended >= 0 and total >= 0.
C20_AttendanceCountsNotNegative ==
    \A k \in DOMAIN attendance :
        attendance[k].attended >= 0 /\ attendance[k].total >= 0

\* The place of name n among the alias keys (0: not an alias), and the name
\* the table gives it.
AliasPlace(n) ==
    IF \E a \in 1..Len(aliases) : aliases[a][1] = n
    THEN CHOOSE a \in 1..Len(aliases) : aliases[a][1] = n
    ELSE 0
Canonical(n) == IF AliasPlace(n) = 0 THEN n ELSE aliases[AliasPlace(n)][2]

\* The name column j of the header line is to bear: its name trimmed and
\* lowercased, renamed when that is an alias whose canonical name is not among
\* the trimmed and lowercased names; of several aliases of one canonical name
\* the first of the table is the one renamed.
TrimmedLowercased(header) == [j \in 1..Len(header) |-> Lower(Strip(header[j]))]
NameAsClaimed(header, j) ==
    LET names == TrimmedLowercased(header)
        n == names[j]
    IN  IF /\ AliasPlace(n) # 0
           /\ Canonical(n) \notin Range(names)
           /\ \A m \in Range(names) :
                 (AliasPlace(m) # 0 /\ Canonical(m) = Canonical(n))
                     => AliasPlace(n) <= AliasPlace(m)
        THEN Canonical(n)
        ELSE n

\* The frame has the columns of the file and no other, each under the name
\* claimed for it and with its data.
NormalizedAsClaimed(file, df) ==
    /\ Len(df.columns) = Len(file.columns)
    /\ \A j \in 1..Len(file.columns) :
          \E k \in 1..Len(df.columns) :
              /\ df.columns[k] = NameAsClaimed(file.columns, j)
              /\ \A i \in 1..Len(file.data) : df.data[i][k] = Txt(file.data[i][j])

\* C21: normalize_columns never fails, and the frame it returns has every
\* column of the file under its trimmed and lowercased name, or under the
\* canonical name when the name is an alias and the canonical name is not
\* among the headers, with the column's data.
C21_NormalizationIsTotal ==
    \A p \in Procs :
        (pc[p] = "done" /\ loc[p].file \in HeaderFiles) =>
            /\ ret[p].status = "ok"
            /\ NormalizedAsClaimed(loc[p].file, ret[p].view)

\* What C21 claims of the calls that return.
C21_ReturnedFrameAsClaimed ==
    \A p \in Procs :
        (pc[p] = "done" /\ loc[p].file \in HeaderFiles /\ ret[p].status = "ok") =>
            NormalizedAsClaimed(loc[p].file, ret[p].view)

\* The uploads of the ledger recorded as the creator of roll number r.
Creators(ledger, map, r) ==
    {u \in DOMAIN ledger :
        \E j \in 1..Len(map) :
            /\ map[j].upload_id = u
            /\ map[j].roll_no = r
            /\ map[j].created_new = 1}

\* C22: under any interleaving, at most one upload of the ledger is recorded
\* as the creator of an existing student; and the rollback of an upload that
\* found the student stored when its rows were applied does not delete it.
C22_OneCreatorPerStudent ==
    [][/\ \A r \in DOMAIN students' :
             Cardinality(Creators(uploads', upload_students_map', r)) <= 1
       /\ \A p \in Procs :
             (pc[p] = "deleting" /\ pc'[p] = "done") =>
                 \A r \in ExistedBefore(loc[p].up_id) : r \in DOMAIN students']_vars

\* The import the history is about, successful, touched only keys the store
\* did not hold when it began, and nothing else has happened since.
TouchedOnlyNew ==
    LET keys == KeysWritten(origin.file, origin.upload_type) IN
    CASE origin.upload_type = "Students" ->
            \A i \in NotSkipped(origin.file, "Students") :
                StudentsParsed[origin.file].rows[i].roll \notin DOMAIN origin.store.students
      [] origin.upload_type = "Attendance" -> keys \cap DOMAIN origin.store.attendance = {}
      [] OTHER -> keys \cap DOMAIN origin.store.marks = {}
RoundTripOf(upload_id) ==
    /\ origin.on /\ origin.up_id = upload_id
    /\ origin.ok /\ origin.clean /\ ~origin.rolled
    /\ TouchedOnlyNew

\* C23: the rollback of a successful import that touched only new keys, no
\* other operation having intervened, returns true and leaves the students,
\* the attendance records, the marks records, the provenance entries and the
\* ledger exactly as the import found them.
C23_RollbackUndoesTheImport ==
    [][\A p \in Procs :
          /\ (pc[p] = "idle" /\ pc'[p] # "idle" /\ loc'[p].upload_type = ""
                /\ RoundTripOf(loc'[p].up_id))
                => pc'[p] = "deleting"
          /\ (pc[p] = "deleting" /\ pc'[p] = "done" /\ RoundTripOf(loc[p].up_id))
                => /\ ret'[p].status = "true"
                   /\ students' = origin.store.students
                   /\ attendance' = origin.store.attendance
                   /\ marks' = origin.store.marks
                   /\ upload_students_map' = origin.store.map
                   /\ uploads' = origin.store.uploads]_vars

\* C23 witness: a Students import that created a student, in a store that
\* held students and attendance records, has been rolled back right after it
\* succeeded.
C23_Witness ==
    \E p \in Procs :
        /\ pc[p] = "done" /\ ret[p].status = "true"
        /\ origin.on /\ origin.up_id = loc[p].up_id
        /\ origin.ok /\ origin.clean /\ origin.rolled
        /\ TouchedOnlyNew
        /\ origin.upload_type = "Students"
        /\ NotSkipped(origin.file, "Students") # {}
        /\ origin.store.students # <<>>
        /\ origin.store.attendance # <<>>

====
